---------------------------- MODULE Spec2Model ----------------------------
(***************************************************************************)
(* A model of pip_search: the PyPI search client (PyPiAPI.search and       *)
(* PyPiAPI.parser), the Package and PackageSet types (sort_by, json), the  *)
(* orchestrator PipSearch (__init__, query, render_set), the renderer      *)
(* _rich_table with check_version, and the command line entry point main.  *)
(*                                                                         *)
(* Python values are represented as follows.  A str is a TLA+ string; the  *)
(* None of a str-typed place (a missing sub-element, an omitted argument)  *)
(* is the string None; a datetime is the tuple <<Y, m, d, H, M, S>> and    *)
(* the None of a datetime-typed place is the empty tuple NoDate; a list is *)
(* a sequence.  An exception is the name of its class.                     *)
(***************************************************************************)
EXTENDS Integers, Sequences, FiniteSets, TLC

VARIABLES
    pc,             \* position of the caller: start, idle, search, main_sort,
                    \* main_render, have_set, raised, exit
    mode,           \* entry point in use: "none", "main" (the CLI), "lib"
    api_url,        \* Config.api_url of the configuration handed to PipSearch
    LOCAL_PIP_LIST, \* utils.LOCAL_PIP_LIST, read once when utils is imported
    q,              \* the query string handed to PipSearch.query
    sort_arg,       \* main: args.sort, once main has read it
    format_arg,     \* main: args.format, once main has read it
    page,           \* search: the loop variable of the page loop (0 before it)
    inflight,       \* page numbers of HTTP GETs sent and not yet answered
    requests,       \* every HTTP GET issued, as its page parameter, in order
    fetched,        \* every HTTP response received: [page, status, body]
    pending,        \* snippets of the current page not yet yielded
    parsed,         \* query: the list the comprehension has built so far
    packages,       \* PackageSet.packages of the package set in hand
    from_query,     \* whether the package set in hand was returned by query
    stdout,         \* what has been written to standard output, in order
    error,          \* the exception raised by the last operation, or None
    exit_code,      \* main: the status the process exits with, -1 while running
    calls           \* library: the calls made on the package set, in order

vars == <<pc, mode, api_url, LOCAL_PIP_LIST, q, sort_arg, format_arg, page,
          inflight, requests, fetched, pending, parsed, packages, from_query,
          stdout, error, exit_code, calls>>

-----------------------------------------------------------------------------
(* Bounds of the model *)

\* most snippets one result page carries
MaxSnippets == 2
\* most library calls (sort_by, render_set) made on one package set
MaxOps == 2
\* most packages of a PackageSet built directly by a library caller
MaxSetLen == 2

-----------------------------------------------------------------------------
(* Python values *)

None == "None"
NoDate == <<>>
PyFalse == "False"

\* Config (the class attributes are the defaults of every configuration)
PYPI_URL == "https://pypi.org/search/"
page_size == 2
link_default_format(name) == "https://pypi.org/project/" \o name

\* The endpoints a configuration may name: the default and another one.
ApiUrls == {PYPI_URL, "not_implemented"}

-----------------------------------------------------------------------------
(* Strings: code points, str.lower, str.strip, comparison *)

\* The code points of the package names the model draws.
Codepoints(s) ==
    CASE s = "a" -> <<97>>
      [] s = "A" -> <<65>>
      [] s = "B" -> <<66>>
      [] OTHER -> <<>>

\* str.lower, on code points: A..Z become a..z, everything else is kept.
lower(cs) == [i \in 1..Len(cs) |-> IF cs[i] >= 65 /\ cs[i] <= 90 THEN cs[i] + 32 ELSE cs[i]]

\* The order of Python's str and tuple comparison: lexicographic, a proper
\* prefix first.
tuple_lt(x, y) ==
    \E i \in 1..(Len(x) + 1) :
        /\ \A j \in 1..(i - 1) : j <= Len(y) /\ x[j] = y[j]
        /\ i <= Len(y)
        /\ (i > Len(x) \/ x[i] < y[i])

\* str.strip on the texts the model draws: surrounding white space goes.
strip(s) ==
    CASE s = " a tool\n" -> "a tool"
      [] s = "\n1.0.0 " -> "1.0.0"
      [] OTHER -> s

-----------------------------------------------------------------------------
(* datetime: strptime with Config.api_released_date_format, strftime with  *)
(* Config.date_format, on the time stamps the model draws                  *)

\* Whether datetime.strptime(s, "%Y-%m-%dT%H:%M:%S%z") parses s; it raises
\* ValueError otherwise.
strptime_ok(s) == s \in {"2021-03-04T05:06:07+0000", "2022-01-02T03:04:05+0000"}

strptime(s) ==
    CASE s = "2021-03-04T05:06:07+0000" -> <<2021, 3, 4, 5, 6, 7>>
      [] s = "2022-01-02T03:04:05+0000" -> <<2022, 1, 2, 3, 4, 5>>
      [] OTHER -> NoDate

\* released_date.strftime("%b %-d, %Y")
strftime(d) ==
    CASE d = <<2021, 3, 4, 5, 6, 7>> -> "Mar 4, 2021"
      [] d = <<2022, 1, 2, 3, 4, 5>> -> "Jan 2, 2022"
      [] OTHER -> ""

-----------------------------------------------------------------------------
(* Package *)

\* Package(name, version, released, description, link): the dataclass's
\* generated __init__ followed by __post_init__.  An empty or omitted link
\* becomes the default link; an empty or omitted released leaves
\* released_date None; a released that strptime rejects raises ValueError.
Package(name, version, released, description, link) ==
    IF released \notin {None, ""} /\ ~strptime_ok(released)
    THEN [err |-> "ValueError", pkg |-> None]
    ELSE [err |-> None,
          pkg |-> [name |-> name,
                   version |-> version,
                   released |-> released,
                   description |-> description,
                   link |-> IF link \in {None, ""}
                            THEN link_default_format(name) ELSE link,
                   released_date |-> IF released \in {None, ""}
                                     THEN NoDate ELSE strptime(released)]]

-----------------------------------------------------------------------------
(* The backend's result pages *)

\* A snippet: one <a class="...snippet..."> element.  href is its attribute;
\* name, version and description are the texts of its sub-elements, None
\* when the sub-element is missing; released is the datetime attribute of the
\* <time> inside the released <span>, None when the span is missing and
\* NoTime when the span holds no <time>.
NoTime == "<no time>"

Snippet(href, name, version, released, description) ==
    [href |-> href, name |-> name, version |-> version, released |-> released,
     description |-> description]

FullSnippet(name, version, released) ==
    Snippet("/project/" \o name \o "/", name, version, released, " a tool\n")

BaseSnippet == FullSnippet("a", "\n1.0.0 ", "2021-03-04T05:06:07+0000")

\* The snippets a page may carry: complete ones, one of them without its
\* href, and the first of them with one sub-element taken away.
Snippets ==
    { BaseSnippet,
      FullSnippet("A", "2.0.0", "2022-01-02T03:04:05+0000"),
      [FullSnippet("B", "1.0.0", "2021-03-04T05:06:07+0000") EXCEPT !.href = None],
      [BaseSnippet EXCEPT !.name = None],
      [BaseSnippet EXCEPT !.version = None],
      [BaseSnippet EXCEPT !.released = None],
      [BaseSnippet EXCEPT !.released = NoTime],
      [BaseSnippet EXCEPT !.description = None] }

SeqsUpTo(S, n) == UNION { [1..k -> S] : k \in 0..n }

\* The bodies a response may carry.  A page of search results carries up to
\* MaxSnippets snippets; the page of an HTTP error carries none.
Bodies(status) == IF status = 200 THEN SeqsUpTo(Snippets, MaxSnippets) ELSE { <<>> }

Statuses == {200, 500}

\* urljoin(config.api_url, href) for the hrefs drawn: an absolute path
\* replaces the path of the base, a missing href gives the base itself.
urljoin(base, href) ==
    IF href = None THEN base
    ELSE IF base = PYPI_URL THEN "https://pypi.org" \o href
    ELSE href

-----------------------------------------------------------------------------
(* PyPiAPI.parser *)

\* The exception PyPiAPI.parser raises on the item before it builds the
\* Package, None if none: select_one gives None for a missing sub-element and
\* .text or .find on it raises AttributeError; find("time") gives None for a
\* missing <time> and subscripting it raises TypeError.  The statements run
\* in the order name, version, released, description.
parser_error(item) ==
    IF item.name = None THEN "AttributeError"
    ELSE IF item.version = None THEN "AttributeError"
    ELSE IF item.released = None THEN "AttributeError"
    ELSE IF item.released = NoTime THEN "TypeError"
    ELSE IF item.description = None THEN "AttributeError"
    ELSE None

\* PyPiAPI.parser(item): [err, pkg].  The link is resolved against the
\* module's global config, not the instance's.
parser(item) ==
    IF parser_error(item) # None
    THEN [err |-> parser_error(item), pkg |-> None]
    ELSE Package(strip(item.name), strip(item.version), item.released,
                 strip(item.description), urljoin(PYPI_URL, item.href))

-----------------------------------------------------------------------------
(* utils.check_version *)

\* The local pip list of the model: of the packages the backend lists, one
\* is installed in the version listed, one in another version, one is not
\* installed.
Inventories ==
    { << [name |-> "a", version |-> "1.0.0"], [name |-> "B", version |-> "2.0.0"] >> }

\* check_version(package_name): the version of the first entry of
\* LOCAL_PIP_LIST with that name, False if there is none.
check_version(package_name) ==
    LET hits == { i \in 1..Len(LOCAL_PIP_LIST) : LOCAL_PIP_LIST[i].name = package_name }
    IN  IF hits = {} THEN PyFalse
        ELSE LOCAL_PIP_LIST[CHOOSE i \in hits : \A j \in hits : i <= j].version

-----------------------------------------------------------------------------
(* PackageSet.sort_by *)

\* list.sort on a list of [k, v] pairs ordered by k: a stable sort.  Each item
\* goes behind every item before it whose key is not greater.
RECURSIVE list_sort(_)
list_sort(pairs) ==
    IF pairs = <<>> THEN <<>>
    ELSE LET n == Len(pairs)
             s == list_sort(SubSeq(pairs, 1, n - 1))
             x == pairs[n]
             pos == Cardinality({ i \in 1..Len(s) : ~tuple_lt(x.k, s[i].k) })
         IN  SubSeq(s, 1, pos) \o <<x>> \o SubSeq(s, pos + 1, Len(s))

\* (a variant of sort_key_name that leaves the case of the name alone)
sort_key_name_cased(p) == Codepoints(p.name)

\* key=lambda p: p.name.lower()
sort_key_name(p) == lower(Codepoints(p.name))

\* key=lambda p: p.released_date
sort_key_released(p) == p.released_date

sorted_by_name(pkgs) ==
    LET s == list_sort([i \in 1..Len(pkgs) |-> [k |-> sort_key_name(pkgs[i]), v |-> pkgs[i]]])
    IN  [i \in 1..Len(s) |-> s[i].v]

sorted_by_released(pkgs) ==
    LET s == list_sort([i \in 1..Len(pkgs) |-> [k |-> sort_key_released(pkgs[i]), v |-> pkgs[i]]])
    IN  [i \in 1..Len(s) |-> s[i].v]

Permutations_of(s) ==
    { [i \in 1..Len(s) |-> s[f[i]]] :
        f \in { g \in [1..Len(s) -> 1..Len(s)] : \A i, j \in 1..Len(s) : g[i] = g[j] => i = j } }

\* The sort keys handed to sort_by: by main args.sort, None without --sort;
\* by a library caller a key of its own, which may be none that sort_by
\* knows.  "version" orders by pkg_resources.parse_version, which is no code
\* of this repository, and is not drawn.
MainSortKeys == {None, "name", "released"}
LibSortKeys == {"name", "released", "size"}

\* PackageSet.sort_by(sort_by): the outcomes [err, packages] it may have.
\* Comparing a None released_date raises TypeError as soon as the list has
\* two items, and list.sort then leaves the list in an order it does not
\* specify.
sort_by(pkgs, key) ==
    IF key = "name" THEN { [err |-> None, packages |-> sorted_by_name(pkgs)] }
    ELSE IF key = "released"
    THEN IF Len(pkgs) >= 2 /\ \E i \in 1..Len(pkgs) : pkgs[i].released_date = NoDate
         THEN { [err |-> "TypeError", packages |-> perm] : perm \in Permutations_of(pkgs) }
         ELSE { [err |-> None, packages |-> sorted_by_released(pkgs)] }
    ELSE IF key # None THEN { [err |-> "ValueError", packages |-> pkgs] }
    ELSE { [err |-> None, packages |-> pkgs] }

-----------------------------------------------------------------------------
(* PackageSet.json *)

\* A JSON document is modelled by its structure: an array is a sequence, an
\* object is the sequence of its <<key, value>> members in the order written,
\* a string value is <<"string", s>> and null is <<"null">>.
json_str(s) == IF s = None THEN <<"null">> ELSE <<"string", s>>

\* pkg.__dict__: the instance attributes in the order they were set.
vars_of(pkg) ==
    << <<"name", json_str(pkg.name)>>,
       <<"version", json_str(pkg.version)>>,
       <<"released", json_str(pkg.released)>>,
       <<"description", json_str(pkg.description)>>,
       <<"link", json_str(pkg.link)>>,
       <<"released_date", <<"null">> >> >>

\* PackageSet.json: json.dumps of the list of the packages' __dict__.  A
\* datetime is not JSON serializable: json.dumps raises TypeError on it.
json(pkgs) ==
    IF \E i \in 1..Len(pkgs) : pkgs[i].released_date # NoDate
    THEN [err |-> "TypeError", doc |-> <<>>]
    ELSE [err |-> None, doc |-> [i \in 1..Len(pkgs) |-> vars_of(pkgs[i])]]

-----------------------------------------------------------------------------
(* _rich_table and PipSearch.render_set *)

\* urlencode({'q': query}) for the queries drawn: quote_plus writes a space
\* as +.
urlencode_q(query) ==
    CASE query = "pip search" -> "q=pip+search"
      [] OTHER -> "q=" \o query

table_title(url, query) ==
    "[not italic]:snake:[/] [bold][magenta]" \o url \o "?" \o urlencode_q(query)
        \o "[/] [not italic]:snake:[/]"

\* The value _rich_table assigns to package.version before it adds the row.
annotated_version(version, checked_version) ==
    IF checked_version = version THEN "[bold cyan]" \o version \o " ==[/]"
    ELSE IF checked_version # PyFalse
    THEN version \o " > [bold purple]" \o checked_version \o "[/]"
    ELSE version

\* The loop of _rich_table from package i on: every package's version is
\* overwritten in place, then its row is added; strftime on a None
\* released_date raises AttributeError and ends the loop.
RECURSIVE rich_rows(_, _, _)
rich_rows(pkgs, i, rows) ==
    IF i > Len(pkgs) THEN [err |-> None, packages |-> pkgs, rows |-> rows]
    ELSE LET p == pkgs[i]
             v == annotated_version(p.version, check_version(p.name))
             pkgs2 == [pkgs EXCEPT ![i].version = v]
         IN  IF p.released_date = NoDate
             THEN [err |-> "AttributeError", packages |-> pkgs2, rows |-> rows]
             ELSE rich_rows(pkgs2, i + 1,
                      Append(rows,
                          [name |-> "[link=" \o p.link \o "]:open_file_folder:[/link] " \o p.name,
                           version |-> v,
                           released |-> strftime(p.released_date),
                           description |-> p.description]))

Output(kind, title, rows, doc) == [kind |-> kind, title |-> title, rows |-> rows, doc |-> doc]

\* _rich_table(package_set, query, config): [err, packages, out], out the
\* sequence of what it prints.  The table is printed after the loop.
rich_table(pkgs, query, url) ==
    LET r == rich_rows(pkgs, 1, <<>>)
    IN  [err |-> r.err, packages |-> r.packages,
         out |-> IF r.err = None
                 THEN << Output("table", table_title(url, query), r.rows, <<>>) >>
                 ELSE <<>>]

Formats == {"rich", "plain", "json"}

\* PipSearch.render_set(package_set, query, format): [err, packages, out].
\* Only "rich" and "json" have a branch.
render_set(pkgs, query, format, url) ==
    IF format = "rich" THEN rich_table(pkgs, query, url)
    ELSE IF format = "json"
    THEN [err |-> json(pkgs).err, packages |-> pkgs,
          out |-> IF json(pkgs).err = None
                  THEN << Output("json", "", <<>>, json(pkgs).doc) >> ELSE <<>>]
    ELSE [err |-> None, packages |-> pkgs, out |-> <<>>]

-----------------------------------------------------------------------------
(* PyPiAPI.search, PipSearch.__init__, PipSearch.query *)

\* (a variant of supported_backend that lets every endpoint pass)
supported_backend_any(url) == TRUE

\* PipSearch.__init__: the one endpoint that has an API class.
supported_backend(url) == url = PYPI_URL

\* (a variant of page_range that stops one page short)
page_range_short == 1..(page_size - 1)

\* search: range(1, self.config.page_size + 1)
page_range == 1..page_size

\* (a variant of page_param that asks for the first page in every round)
page_param_first(p) == 1

\* search: the page parameter of the GET of loop round p
page_param(p) == p

\* query: the list comprehension adds each parsed package at the end
query_collect(list, pkg) == Append(list, pkg)

\* The exceptions with which requests.get gives up on a request.
TransportErrors == {"ConnectionError", "Timeout"}

\* The packages a library caller builds directly, as local_packages and the
\* tests do: one from a name and a version alone, two from all the fields.
DirectPackages ==
    { Package("a", "1.0.0", None, None, None).pkg,
      Package("A", "2.0.0", "2022-01-02T03:04:05+0000", "a tool", None).pkg,
      Package("B", "1.0.0", "2021-03-04T05:06:07+0000", None, "https://example.org/B").pkg }

\* " ".join(args.query)
RECURSIVE join(_)
join(terms) ==
    IF terms = <<>> THEN ""
    ELSE IF Len(terms) = 1 THEN terms[1]
    ELSE terms[1] \o " " \o join(Tail(terms))

\* The query terms of a command line, and the queries of a library caller.
ArgQueries == { <<>>, <<"">>, <<"pip", "search">> }
Queries == { "", "pip search" }

-----------------------------------------------------------------------------
(* The state machine *)

Init ==
    /\ pc = "start"
    /\ mode = "none"
    /\ api_url = PYPI_URL
    /\ LOCAL_PIP_LIST \in Inventories
    /\ q = ""
    /\ sort_arg = None
    /\ format_arg = "rich"
    /\ page = 0
    /\ inflight = {}
    /\ requests = <<>>
    /\ fetched = <<>>
    /\ pending = <<>>
    /\ parsed = <<>>
    /\ packages = <<>>
    /\ from_query = FALSE
    /\ stdout = <<>>
    /\ error = None
    /\ exit_code = -1
    /\ calls = <<>>

\* An exception leaves the operation under way: an uncaught exception ends
\* main with a traceback and status 1, and reaches a library caller.
Raise(exc) ==
    /\ error' = exc
    /\ pc' = IF mode = "main" THEN "exit" ELSE "raised"
    /\ exit_code' = IF mode = "main" THEN 1 ELSE exit_code

\* main, up to the call of ps.query: without query terms it prints the help
\* and returns 1; otherwise it builds PipSearch() with the default
\* configuration, joins the terms and starts the query.  args.sort and
\* args.format are drawn where main reads them.
main_parse_args(terms) ==
    /\ pc = "start"
    /\ mode' = "main"
    /\ IF terms = <<>>
       THEN /\ stdout' = Append(stdout, Output("help", "", <<>>, <<>>))
            /\ exit_code' = 1
            /\ pc' = "exit"
            /\ UNCHANGED <<q, error>>
       ELSE IF supported_backend(PYPI_URL)
       THEN /\ q' = join(terms)
            /\ pc' = "search"
            /\ UNCHANGED <<stdout, exit_code, error>>
       ELSE /\ error' = "NotImplementedError"
            /\ exit_code' = 1
            /\ pc' = "exit"
            /\ UNCHANGED <<q, stdout>>
    /\ UNCHANGED <<api_url, LOCAL_PIP_LIST, sort_arg, format_arg, page, inflight,
                   requests, fetched, pending, parsed, packages, from_query,
                   calls>>

\* PipSearch(config), called by a library caller.
PipSearch_init(url) ==
    /\ pc = "start"
    /\ mode' = "lib"
    /\ api_url' = url
    /\ IF supported_backend(url)
       THEN pc' = "idle" /\ UNCHANGED error
       ELSE pc' = "raised" /\ error' = "NotImplementedError"
    /\ UNCHANGED <<LOCAL_PIP_LIST, q, sort_arg, format_arg, page, inflight,
                   requests, fetched, pending, parsed, packages, from_query,
                   stdout, exit_code, calls>>

\* ps.query(query), called by a library caller: the comprehension starts to
\* draw from the generator search(query).
query_call(query) ==
    /\ pc = "idle"
    /\ q' = query
    /\ pc' = "search"
    /\ UNCHANGED <<mode, api_url, LOCAL_PIP_LIST, sort_arg, format_arg, page,
                   inflight, requests, fetched, pending, parsed, packages,
                   from_query, stdout, error, exit_code, calls>>

\* search: the next round of the page loop sends its GET.  The generator gets
\* here only when the snippets of the page before are used up.
search_get ==
    /\ pc = "search"
    /\ inflight = {}
    /\ pending = <<>>
    /\ page + 1 \in page_range
    /\ page' = page + 1
    /\ inflight' = inflight \cup {page_param(page + 1)}
    /\ requests' = Append(requests, page_param(page + 1))
    /\ UNCHANGED <<pc, mode, api_url, LOCAL_PIP_LIST, q, sort_arg, format_arg,
                   fetched, pending, parsed, packages, from_query, stdout, error,
                   exit_code, calls>>

\* search: requests.get raises (no connection, a timeout); the exception
\* passes through the generator and the comprehension.
search_transport_error(exc) ==
    /\ pc = "search"
    /\ inflight # {}
    /\ inflight' = {}
    /\ Raise(exc)
    /\ UNCHANGED <<mode, api_url, LOCAL_PIP_LIST, q, sort_arg, format_arg, page,
                   requests, fetched, pending, parsed, packages, from_query,
                   stdout, calls>>

\* search: requests.get returns a response.  Its status is not looked at; its
\* text is parsed and the snippets selected from it are what the generator
\* yields next.
search_response(status, body) ==
    /\ pc = "search"
    /\ \E p \in inflight :
          /\ inflight' = inflight \ {p}
          /\ fetched' = Append(fetched, [page |-> p, status |-> status, body |-> body])
    /\ pending' = body
    /\ UNCHANGED <<pc, mode, api_url, LOCAL_PIP_LIST, q, sort_arg, format_arg,
                   page, requests, parsed, packages, from_query, stdout, error,
                   exit_code, calls>>

\* query: the comprehension takes the next snippet and parses it; an
\* exception of the parser ends the query.
query_parse ==
    /\ pc = "search"
    /\ pending # <<>>
    /\ LET r == parser(Head(pending))
       IN  IF r.err # None
           THEN /\ Raise(r.err)
                /\ UNCHANGED <<pending, parsed>>
           ELSE /\ parsed' = query_collect(parsed, r.pkg)
                /\ pending' = Tail(pending)
                /\ UNCHANGED <<pc, error, exit_code>>
    /\ UNCHANGED <<mode, api_url, LOCAL_PIP_LIST, q, sort_arg, format_arg, page,
                   inflight, requests, fetched, packages, from_query, stdout,
                   calls>>

\* query: the generator is exhausted; the list becomes the packages of the
\* PackageSet that query returns.
query_return ==
    /\ pc = "search"
    /\ inflight = {}
    /\ pending = <<>>
    /\ page + 1 \notin page_range
    /\ packages' = parsed
    /\ parsed' = <<>>
    /\ from_query' = TRUE
    /\ pc' = IF mode = "main" THEN "main_sort" ELSE "have_set"
    /\ UNCHANGED <<mode, api_url, LOCAL_PIP_LIST, q, sort_arg, format_arg, page,
                   inflight, requests, fetched, pending, stdout, error,
                   exit_code, calls>>

\* main: package_set.sort_by(args.sort)
main_sort(sort) ==
    /\ pc = "main_sort"
    /\ sort_arg' = sort
    /\ \E r \in sort_by(packages, sort) :
          /\ packages' = r.packages
          /\ IF r.err # None THEN Raise(r.err)
             ELSE pc' = "main_render" /\ UNCHANGED <<error, exit_code>>
    /\ UNCHANGED <<mode, api_url, LOCAL_PIP_LIST, q, format_arg, page, inflight,
                   requests, fetched, pending, parsed, from_query, stdout, calls>>

\* main: ps.render_set(package_set, query, args.format), then main returns
\* None and the process exits with status 0.
main_render(format) ==
    /\ pc = "main_render"
    /\ format_arg' = format
    /\ LET r == render_set(packages, q, format, api_url)
       IN  /\ packages' = r.packages
           /\ stdout' = stdout \o r.out
           /\ IF r.err # None THEN Raise(r.err)
              ELSE pc' = "exit" /\ exit_code' = 0 /\ UNCHANGED error
    /\ UNCHANGED <<mode, api_url, LOCAL_PIP_LIST, q, sort_arg, page, inflight,
                   requests, fetched, pending, parsed, from_query, calls>>

\* PackageSet(packages), built by a library caller from packages of its own.
PackageSet_init(pkgs) ==
    /\ pc = "idle"
    /\ packages' = pkgs
    /\ from_query' = FALSE
    /\ pc' = "have_set"
    /\ UNCHANGED <<mode, api_url, LOCAL_PIP_LIST, q, sort_arg, format_arg, page,
                   inflight, requests, fetched, pending, parsed, stdout, error,
                   exit_code, calls>>

\* package_set.sort_by(key), called by a library caller, who sees the
\* exception if there is one and keeps the package set.
lib_sort_by(key) ==
    /\ pc = "have_set"
    /\ Len(calls) < MaxOps
    /\ calls' = Append(calls, <<"sort_by", key>>)
    /\ \E r \in sort_by(packages, key) :
          /\ packages' = r.packages
          /\ error' = r.err
    /\ UNCHANGED <<pc, mode, api_url, LOCAL_PIP_LIST, q, sort_arg, format_arg,
                   page, inflight, requests, fetched, pending, parsed,
                   from_query, stdout, exit_code>>

\* ps.render_set(package_set, query, format), called by a library caller.
lib_render_set(format) ==
    /\ pc = "have_set"
    /\ Len(calls) < MaxOps
    /\ calls' = Append(calls, <<"render_set", format>>)
    /\ LET r == render_set(packages, q, format, api_url)
       IN  /\ packages' = r.packages
           /\ stdout' = stdout \o r.out
           /\ error' = r.err
    /\ UNCHANGED <<pc, mode, api_url, LOCAL_PIP_LIST, q, sort_arg, format_arg,
                   page, inflight, requests, fetched, pending, parsed,
                   from_query, exit_code>>

\* Every input is drawn once the caller is where the call can be made.
Next ==
    \/ pc = "start" /\ \E terms \in ArgQueries : main_parse_args(terms)
    \/ pc = "start" /\ \E url \in ApiUrls : PipSearch_init(url)
    \/ pc = "idle" /\ \E query \in Queries : query_call(query)
    \/ search_get
    \/ pc = "search" /\ inflight # {}
          /\ \E exc \in TransportErrors : search_transport_error(exc)
    \/ pc = "search" /\ inflight # {}
          /\ \E status \in Statuses : \E body \in Bodies(status) :
                search_response(status, body)
    \/ query_parse
    \/ query_return
    \/ pc = "main_sort" /\ \E sort \in MainSortKeys : main_sort(sort)
    \/ pc = "main_render" /\ \E format \in Formats : main_render(format)
    \/ pc = "idle"
          /\ \E pkgs \in SeqsUpTo(DirectPackages, MaxSetLen) : PackageSet_init(pkgs)
    \/ pc = "have_set" /\ \E key \in LibSortKeys : lib_sort_by(key)
    \/ pc = "have_set" /\ \E format \in Formats : lib_render_set(format)

Spec == Init /\ [][Next]_vars

-----------------------------------------------------------------------------
(* What the claims speak of *)

\* The snippets of the responses received, in arrival order: page order, then
\* the order within the page.
RECURSIVE arrival(_)
arrival(pages) ==
    IF pages = <<>> THEN <<>> ELSE pages[1].body \o arrival(Tail(pages))

\* A snippet that is not malformed: it has its required sub-elements.
IsValidSnippet(item) == item.name # None /\ item.version # None

\* query has returned its package set and nothing has touched the set yet.
QueryJustReturned ==
    from_query /\ ((pc = "have_set" /\ calls = <<>>) \/ pc = "main_sort")

\* main has run to its render_set call and left it.
MainRendered == mode = "main" /\ from_query /\ pc = "exit"

Last(s) == s[Len(s)]

LowerName(pkg) == lower(Codepoints(pkg.name))

\* C1: PipSearch built with an endpoint other than the supported one raises
\* NotImplementedError at once, and no HTTP request has been sent or
\* answered.
C1_UnsupportedBackendFailsFast ==
    (mode = "lib" /\ api_url # PYPI_URL) =>
        /\ pc = "raised"
        /\ error = "NotImplementedError"
        /\ requests = <<>>
        /\ inflight = {}
        /\ fetched = <<>>

C1_Witness ==
    mode = "lib" /\ api_url = "not_implemented" /\ pc = "raised"
        /\ error = "NotImplementedError"

\* C2: query("") returns a package set without packages whatever the pages
\* hold, and main without query terms prints its help and sends no request
\* and renders nothing.
C2_EmptyQueryEmptySet ==
    /\ (q = "" /\ QueryJustReturned) => packages = <<>>
    /\ (mode = "main" /\ stdout # <<>> /\ stdout[1].kind = "help") =>
          (requests = <<>> /\ Len(stdout) = 1 /\ pc = "exit")

\* C3: the package set query returns for a non-empty query holds one package
\* for every valid snippet of pages 1..page_size, in arrival order.
C3_SetIsValidSnippetsInOrder ==
    (q # "" /\ QueryJustReturned) =>
        LET valid == SelectSeq(arrival(fetched), IsValidSnippet)
        IN  /\ Len(fetched) = page_size
            /\ \A k \in 1..page_size : fetched[k].page = k
            /\ Len(packages) = Len(valid)
            /\ \A i \in 1..Len(valid) :
                  /\ packages[i].name = strip(valid[i].name)
                  /\ packages[i].version = strip(valid[i].version)

C3_Witness ==
    /\ q # "" /\ QueryJustReturned
    /\ Len(packages) = 3
    /\ fetched[1].body # <<>> /\ fetched[2].body # <<>>
    /\ packages[1].name # packages[2].name /\ packages[2].name # packages[3].name

PublicFields == <<"name", "version", "released", "description", "link">>

\* C4: JSON serialization of any package set succeeds and gives one object
\* per package, in set order, with exactly the fields name, version,
\* released, description, link, whose name, version, description and link
\* are those of the package.
C4_JsonRoundTrips ==
    ((mode = "lib" /\ calls = << <<"render_set", "json">> >>)
        \/ (MainRendered /\ format_arg = "json")) =>
        /\ error = None
        /\ Len(stdout) = 1
        /\ stdout[1].kind = "json"
        /\ Len(stdout[1].doc) = Len(packages)
        /\ \A i \in 1..Len(packages) :
              LET obj == stdout[1].doc[i]
              IN  /\ [k \in 1..Len(obj) |-> obj[k][1]] = PublicFields
                  /\ obj[1][2] = json_str(packages[i].name)
                  /\ obj[2][2] = json_str(packages[i].version)
                  /\ obj[4][2] = json_str(packages[i].description)
                  /\ obj[5][2] = json_str(packages[i].link)

\* A render_set call with this format is the step taken.
RenderCalled(format) ==
    \/ pc = "have_set" /\ calls' = Append(calls, <<"render_set", format>>)
    \/ pc = "main_render" /\ pc' # pc /\ format_arg' = format

\* The version cell the claim asks for: the exact match mark, the available
\* version followed by the installed one, or the raw version.
ExpectedVersionCell(pkg) ==
    LET installed == check_version(pkg.name)
    IN  IF installed = PyFalse THEN pkg.version
        ELSE IF installed = pkg.version THEN "[bold cyan]" \o pkg.version \o " ==[/]"
        ELSE pkg.version \o " > [bold purple]" \o installed \o "[/]"

\* C5: a rich or plain render of a package set that query returned prints
\* one row per package whose version cell follows from the local inventory:
\* the exact match mark, the upgrade from the installed version, or the raw
\* version.
C5_VersionCellFromInventory ==
    [][\A format \in {"rich", "plain"} :
          (from_query /\ RenderCalled(format)) =>
              \A i \in 1..Len(packages) :
                  /\ Len(stdout') = Len(stdout) + 1
                  /\ Last(stdout').kind = "table"
                  /\ Len(Last(stdout').rows) = Len(packages)
                  /\ Last(stdout').rows[i].version = ExpectedVersionCell(packages[i])]_vars

\* The versions the backend and the library callers of the model publish.
RawVersions == {"1.0.0", "2.0.0"}

\* C6: whatever was rendered before, a JSON output carries every package's
\* raw version, and a second rich render of a set gives every package the
\* version cell the first one gave it.
C6_NoAnnotationLeak ==
    /\ \A n \in 1..Len(stdout) :
          stdout[n].kind = "json" =>
              \A i \in 1..Len(stdout[n].doc) :
                  \E v \in RawVersions : stdout[n].doc[i][2] = <<"version", <<"string", v>> >>
    /\ (Len(calls) = 2 /\ calls[1] = <<"render_set", "rich">> /\ calls[2] = calls[1]
            /\ Len(stdout) = 2) =>
          \A i \in 1..Len(packages) :
              stdout[1].rows[i].version = stdout[2].rows[i].version

\* The parser raised on the snippet at the head of pending.
ParserRaised == pc \in {"raised", "exit"} /\ pending # <<>>

\* C7: the parser fails on a snippet only if its name or its version is
\* missing (and always then); a snippet with both parses, whatever else it
\* lacks.
C7_ParseFailsIffRequiredMissing ==
    /\ ParserRaised => ~IsValidSnippet(Head(pending))
    /\ (pc = "search" /\ pending # <<>> /\ ~IsValidSnippet(Head(pending))) =>
          parser(Head(pending)).err # None

\* C8: a transport failure on page k (an exception of the HTTP client, or a
\* response whose status is not 2xx) aborts the query: no later page is
\* requested, no package set is returned, nothing is rendered.
C8_TransportFailureAborts ==
    /\ error \in TransportErrors =>
          (pc \in {"raised", "exit"} /\ ~from_query /\ stdout = <<>> /\ Len(requests) = page)
    /\ \A n \in 1..Len(fetched) :
          (fetched[n].status < 200 \/ fetched[n].status > 299) =>
              (Len(requests) <= fetched[n].page /\ ~from_query /\ stdout = <<>>)

\* C9: the GETs of a query are those of pages 1, 2, ... in this order, each
\* once, never two unanswered at a time; a query that returns has sent
\* exactly those of pages 1..page_size, and nothing is rendered from a
\* query's package set before all of them are answered.
C9_OneGetPerPageInOrder ==
    /\ \A i \in 1..Len(requests) : requests[i] = i
    /\ Len(requests) <= page_size
    /\ Cardinality(inflight) <= 1
    /\ from_query =>
          (Len(requests) = page_size /\ Len(fetched) = page_size /\ inflight = {})
    /\ (mode = "main" /\ \E n \in 1..Len(stdout) : stdout[n].kind # "help") => from_query

C9_Witness ==
    /\ MainRendered /\ exit_code = 0
    /\ requests = <<1, 2>>
    /\ stdout # <<>> /\ stdout[1].kind = "table" /\ Len(stdout[1].rows) >= 2

\* A sort_by("name") call is the step taken.
SortByNameCalled ==
    \/ pc = "have_set" /\ calls' = Append(calls, <<"sort_by", "name">>)
    \/ pc = "main_sort" /\ pc' # pc /\ sort_arg' = "name"

\* after holds the packages of before in ascending order of lower-cased
\* name, those of equal lower-cased name in the order they have in before.
IsStableSortByName(before, after) ==
    /\ Len(after) = Len(before)
    /\ \A i, j \in 1..Len(after) :
          i < j => ~tuple_lt(LowerName(after[j]), LowerName(after[i]))
    /\ \A n \in 1..Len(before) :
          LET SameKey(pkg) == LowerName(pkg) = LowerName(before[n])
          IN  SelectSeq(after, SameKey) = SelectSeq(before, SameKey)

\* C10: sort_by("name") leaves the same packages in ascending order of
\* lower-cased name, equal ones in their former order, and a sort_by("name")
\* that follows a sort_by("name") changes nothing.
C10_SortByNameStableIdempotent ==
    [][SortByNameCalled =>
          /\ IsStableSortByName(packages, packages')
          /\ (calls # <<>> /\ Last(calls) = <<"sort_by", "name">>) => packages' = packages]_vars

C10_Witness ==
    /\ calls = << <<"sort_by", "name">>, <<"sort_by", "name">> >>
    /\ from_query
    /\ Len(packages) = 3
    /\ [i \in 1..3 |-> strip(arrival(fetched)[i].name)] = <<"B", "A", "a">>
    /\ [i \in 1..3 |-> packages[i].name] = <<"A", "a", "B">>

=============================================================================
